---- MODULE Spec2Model ----
(***************************************************************************)
(* Model of the microstack / atomic_materials workflow: the LangGraph      *)
(* pipeline parse_query -> generate_structure -> relax_structure ->        *)
(* check_microscopy -> (stm_agent | afm_agent | iets_agent | END), with    *)
(* the WorkflowState record the nodes mutate.                              *)
(***************************************************************************)
EXTENDS Integers, Sequences, FiniteSets, TLC

\* One run of run_workflow.
VARIABLES state, pc, log, target, raised

\* Two requests generating structures side by side, and the SciLink output
\* directory (OUTPUT_DIR/scilink_structures) they share.
VARIABLES requests, scilink_dir

\* One call of the comparison engine: its inputs and the analysis it returns.
VARIABLES cmp

run_vars == <<state, pc, log, target, raised>>

conc_vars == <<requests, scilink_dir>>

cmp_vars == <<cmp>>

vars == <<state, pc, log, target, raised, requests, scilink_dir, cmp>>

(***************************************************************************)
(* Optional values: Python's None is the empty tuple, a value v is <<v>>.  *)
(***************************************************************************)
None == <<>>

Some(v) == <<v>>

Get(o) == o[1]

(***************************************************************************)
(* Bounds and input sets.                                                  *)
(***************************************************************************)
MaxEnergy == 1

Energies == 0..MaxEnergy

SessionIds == {"s1", "s2"}

Queries == {"q1"}

TaskTypes == {"SciLink_Structure_Generation", "Surface_Generation"}

MicroscopyTypes == {None, Some(""), Some("STM"), Some("AFM"), Some("IETS"),
                    Some("TEM"), Some("TERS"), Some("XYZ")}

\* relax: None stands for a ParsedQuery without the attribute "relax".
ParsedQueries ==
    [task_type : TaskTypes,
     use_scilink : BOOLEAN,
     microscopy_type : MicroscopyTypes,
     relax : {None, Some(TRUE), Some(FALSE)},
     material_formula : {None, Some("Cu")},
     surface_miller_indices : {None, Some("100")}]

FileKeys == {"unrelaxed_xyz", "output_dir", "structure_dir", "relaxed_xyz",
             "visualization", "microscopy"}

(***************************************************************************)
(* The order of the lifecycle stages.  The code stores the stage as the    *)
(* string workflow_stage; the nodes write "parsed", "structure_generation",*)
(* "relaxation" and "microscopy".  No node writes a value for the stages   *)
(* MicroscopyChecked and Terminal.                                         *)
(***************************************************************************)
StageRank(st) ==
    CASE st = "initialized" -> 0
      [] st = "parsed" -> 1
      [] st = "structure_generation" -> 2
      [] st = "relaxation" -> 3
      [] st = "microscopy_checked" -> 4
      [] st = "microscopy" -> 5
      [] st = "terminal" -> 6

(***************************************************************************)
(* WorkflowState and its methods.                                          *)
(***************************************************************************)
WorkflowState(session_id, query) ==
    [session_id |-> session_id,
     query |-> query,
     parsed_params |-> None,
     workflow_stage |-> "initialized",
     atoms_object |-> None,
     atoms_relaxed |-> None,
     structure_uuid |-> None,
     structure_info |-> None,
     relaxation_results |-> None,
     file_paths |-> [k \in FileKeys |-> None],
     microscopy_requested |-> FALSE,
     microscopy_type |-> None,
     interactive_pause |-> FALSE,
     microscopy_results |-> {},
     errors |-> <<>>,
     warnings |-> <<>>]

add_error(s, msg) == [s EXCEPT !.errors = Append(@, msg)]

add_warning(s, msg) == [s EXCEPT !.warnings = Append(@, msg)]

has_errors(s) == Len(s.errors) > 0

has_structure(s) == s.atoms_object # None

\* What a node hands back to the graph: the state, whether an exception
\* left the node, and the collaborators the node invoked, in order.
Ret(s, calls) == [state |-> s, raised |-> FALSE, calls |-> calls]

Raise(s, calls) == [state |-> s, raised |-> TRUE, calls |-> calls]

(***************************************************************************)
(* parse_query_node                                                        *)
(***************************************************************************)
\* None: parse_query raises; Some(q): it returns the ParsedQuery q.
ParseOutcomes == {None} \cup {Some(q) : q \in ParsedQueries}

\* Variant of parse_query_node without the try/except around parse_query.
parse_query_node_uncaught(s, out) ==
    IF out = None
    THEN Raise(s, <<"llm.parse_query", "fail:parse_query">>)
    ELSE Ret([s EXCEPT !.parsed_params = out,
                       !.workflow_stage = "parsed"], <<"llm.parse_query">>)

parse_query_node(s, out) ==
    IF out = None
    THEN Ret(add_error(s, "Query parsing failed"),
             <<"llm.parse_query", "fail:parse_query">>)
    ELSE Ret([s EXCEPT !.parsed_params = out,
                       !.workflow_stage = "parsed"], <<"llm.parse_query">>)

(***************************************************************************)
(* Structure providers.  An atomic structure is the record of the provider *)
(* that built it, the session it was built for and whether it is the       *)
(* relaxed snapshot.                                                       *)
(***************************************************************************)
Atoms(provider, sid) == [provider |-> provider, session |-> sid, relaxed |-> FALSE]

\* Outcomes of the primary provider:
\*   init_error     SciLinkIntegration() raises LLMConnectionError
\*   status_error   generate_surface_structure returns status "error"
\*   no_file        status "success" but no structure file on disk
\*   read_exception reading the structure file raises
\*   ok             the structure is read
PrimaryOutcomes == {"init_error", "status_error", "no_file", "read_exception", "ok"}

\* Variant of ScriptGeneratorInvoked: the task type is not looked at.
ScriptGeneratorInvoked_any_task(q) == q.material_formula # None

\* SciLinkIntegration.generate_surface_structure: the script generator is
\* invoked only for the SciLink task type with all parameters present.
ScriptGeneratorInvoked(q) ==
    /\ q.task_type = "SciLink_Structure_Generation"
    /\ q.material_formula # None

\* The outcomes the primary provider can have for the request q.
PrimaryPossible(q, prim) ==
    prim \in {"no_file", "read_exception", "ok"} => ScriptGeneratorInvoked(q)

generate_with_scilink(s, prim) ==
    LET q == Get(s.parsed_params)
        gen == IF ScriptGeneratorInvoked(q) THEN <<"generate_script">> ELSE <<>>
    IN  CASE prim = "init_error" ->
               [atoms |-> None,
                state |-> add_error(s, "SciLink not available"),
                calls |-> <<"_generate_with_scilink", "fail:scilink_exception">>]
          [] prim = "status_error" ->
               [atoms |-> None, state |-> s,
                calls |-> <<"_generate_with_scilink">> \o gen
                              \o <<"fail:scilink_result">>]
          [] prim = "no_file" ->
               [atoms |-> None, state |-> s,
                calls |-> <<"_generate_with_scilink">> \o gen
                              \o <<"fail:scilink_result">>]
          [] prim = "read_exception" ->
               [atoms |-> None,
                state |-> add_error(s, "SciLink generation error"),
                calls |-> <<"_generate_with_scilink">> \o gen
                              \o <<"fail:scilink_exception">>]
          [] prim = "ok" ->
               [atoms |-> Some(Atoms("scilink", s.session_id)), state |-> s,
                calls |-> <<"_generate_with_scilink">> \o gen]

\* Outcomes of create_surface inside the fallback provider.
FallbackOutcomes == {"exception", "ok"}

generate_simple_surface(s, fb) ==
    LET q == Get(s.parsed_params)
    IN  IF q.material_formula = None \/ q.surface_miller_indices = None
        THEN [atoms |-> None, state |-> s,
              calls |-> <<"_generate_simple_surface", "fail:simple_surface">>]
        ELSE IF fb = "exception"
        THEN [atoms |-> None,
              state |-> add_error(s, "Simple surface generation error"),
              calls |-> <<"_generate_simple_surface", "create_surface",
                          "fail:simple_surface">>]
        ELSE [atoms |-> Some(Atoms("simple", s.session_id)), state |-> s,
              calls |-> <<"_generate_simple_surface", "create_surface">>]

_format_miller_indices(indices) ==
    IF indices = None THEN "unknown" ELSE Get(indices)

\* Outcomes of writing the unrelaxed structure to disk.
SaveOutcomes == {"exception", "ok"}

Path(sid, name) == Some(<<sid, name>>)

\* Variant of structure_uuid_of: a fresh identifier is drawn.
structure_uuid_of_fresh(s) == Some("uuid4")

\* Line 92: the session id is used as the structure UUID.
structure_uuid_of(s) == Some(s.session_id)

\* Lines 90-118 of generate_structure: store the structure and save it.
store_structure(s, atoms, save, calls) ==
    LET q == Get(s.parsed_params)
        s1 == [s EXCEPT !.atoms_object = atoms,
                        !.structure_uuid = structure_uuid_of(s),
                        !.structure_info =
                            Some([element |-> IF q.material_formula = None
                                              THEN "unknown"
                                              ELSE Get(q.material_formula),
                                  face |-> _format_miller_indices(
                                               q.surface_miller_indices)])]
    IN  IF save = "exception"
        THEN Ret(add_error(s1, "Structure generation failed"), calls)
        ELSE Ret([s1 EXCEPT !.file_paths =
                      [k \in FileKeys |->
                          IF k \in {"unrelaxed_xyz", "output_dir", "structure_dir"}
                          THEN Path(s.session_id, k) ELSE @[k]]], calls)

\* Line 75: the primary provider is selected.
use_primary(q) == q.use_scilink \/ q.task_type = "SciLink_Structure_Generation"

\* Variant of scilink_failed: the fallback is taken whatever the primary returned.
scilink_failed_always(atoms) == TRUE

\* Line 79: the primary provider returned no structure.
scilink_failed(atoms) == atoms = None

generate_structure(s, prim, fb, save) ==
    LET s0 == [s EXCEPT !.workflow_stage = "structure_generation"]
    IN  IF s0.parsed_params = None
        THEN Ret(add_error(s0, "Query parsing failed, no parameters extracted"), <<>>)
        ELSE
          LET q == Get(s0.parsed_params)
              first == IF use_primary(q)
                       THEN generate_with_scilink(s0, prim)
                       ELSE generate_simple_surface(s0, fb)
              second == IF use_primary(q) /\ scilink_failed(first.atoms)
                        THEN LET r == generate_simple_surface(first.state, fb)
                             IN  [r EXCEPT !.calls = first.calls \o @]
                        ELSE first
          IN  IF second.atoms = None
              THEN Ret(add_error(second.state, "Failed to generate structure"),
                       second.calls)
              ELSE store_structure(second.state, second.atoms, save, second.calls)

(***************************************************************************)
(* relax_structure                                                         *)
(***************************************************************************)
\* Outcomes of the relaxation engine and of saving its result:
\*   engine_fail  load_model or relax_surfaces raises
\*   write_fail   writing the relaxed structure raises
\*   plot_fail    plot_surface_relaxation raises
\*   ok
RelaxOutcomes == {"engine_fail", "write_fail", "plot_fail", "ok"}

Relaxed(atoms) == [atoms EXCEPT !.relaxed = TRUE]

\* Variant of skipped_stage: a skipped relaxation rewinds to "parsed".
skipped_stage_rewound == "parsed"

\* Line 298: the stage a skipped relaxation leaves behind.
skipped_stage == "structure_generation"

\* Variant of no_structure_to_relax: the message replaces the error list.
no_structure_to_relax_resets(s) ==
    Ret([s EXCEPT !.errors = <<"No structure to relax">>], <<>>)

\* Lines 287-289: there is no structure to relax.
no_structure_to_relax(s) == Ret(add_error(s, "No structure to relax"), <<>>)

\* Variant of relaxation_failed: the exception leaves relax_structure.
relaxation_failed_uncaught(s, calls) ==
    Raise(s, calls \o <<"fail:relaxation">>)

\* Lines 343-346: an exception inside relax_structure is caught.
relaxation_failed(s, calls) ==
    Ret(add_error(s, "Relaxation failed"), calls \o <<"fail:relaxation">>)

\* Variant of should_relax: the relax flag of the request is ignored.
should_relax_always(s) == TRUE

\* Lines 291-294: relaxation is on unless the request turns it off.
should_relax(s) ==
    IF s.parsed_params # None /\ Get(s.parsed_params).relax # None
    THEN Get(Get(s.parsed_params).relax)
    ELSE TRUE

relax_structure(s, out, init_e, final_e) ==
    LET s0 == [s EXCEPT !.workflow_stage = "relaxation"]
        s1 == [s0 EXCEPT !.atoms_relaxed = Some(Relaxed(Get(s0.atoms_object))),
                         !.relaxation_results =
                             Some([initial_energy |-> init_e,
                                   final_energy |-> final_e,
                                   energy_change |-> final_e - init_e])]
        s2 == [s1 EXCEPT !.file_paths["relaxed_xyz"] =
                             Path(s.session_id, "relaxed_xyz")]
        s3 == [s2 EXCEPT !.file_paths["visualization"] =
                             Path(s.session_id, "visualization")]
        engine == <<"load_model", "relax_surfaces">>
    IN  IF s0.atoms_object = None
        THEN no_structure_to_relax(s0)
        ELSE IF ~should_relax(s0)
        THEN Ret([s0 EXCEPT !.workflow_stage = skipped_stage], <<>>)
        ELSE CASE out = "engine_fail" -> relaxation_failed(s0, engine)
               [] out = "write_fail" -> relaxation_failed(s1, engine)
               [] out = "plot_fail" -> relaxation_failed(s2, engine)
               [] out = "ok" -> Ret(s3, engine)

(***************************************************************************)
(* Microscopy router                                                       *)
(***************************************************************************)
\* Python truthiness of an optional string.
Truthy(o) == o # None /\ Get(o) # ""

\* Variant of check_microscopy: the pause is set on both branches.
check_microscopy_always_pauses(s) ==
    IF s.parsed_params # None /\ Truthy(Get(s.parsed_params).microscopy_type)
    THEN [s EXCEPT !.microscopy_requested = TRUE,
                   !.microscopy_type = Get(s.parsed_params).microscopy_type,
                   !.interactive_pause = TRUE]
    ELSE [s EXCEPT !.microscopy_requested = FALSE,
                   !.interactive_pause = TRUE]

check_microscopy(s) ==
    IF s.parsed_params # None /\ Truthy(Get(s.parsed_params).microscopy_type)
    THEN [s EXCEPT !.microscopy_requested = TRUE,
                   !.microscopy_type = Get(s.parsed_params).microscopy_type,
                   !.interactive_pause = FALSE]
    ELSE [s EXCEPT !.microscopy_requested = FALSE,
                   !.interactive_pause = TRUE]

\* Variant of route_microscopy: an unknown technique appends a warning.
route_microscopy_warns(s) ==
    IF ~s.microscopy_requested THEN [target |-> "end", state |-> s]
    ELSE IF s.microscopy_type = Some("STM") THEN [target |-> "stm_agent", state |-> s]
    ELSE IF s.microscopy_type = Some("AFM") THEN [target |-> "afm_agent", state |-> s]
    ELSE IF s.microscopy_type = Some("IETS") THEN [target |-> "iets_agent", state |-> s]
    ELSE [target |-> "end",
          state |-> add_warning(s, "Unknown microscopy type")]

\* route_microscopy returns the name of the next node and does not touch
\* the state; the pair (target, state) is what the graph holds afterwards.
route_microscopy(s) ==
    [target |->
        IF ~s.microscopy_requested THEN "end"
        ELSE IF s.microscopy_type = Some("STM") THEN "stm_agent"
        ELSE IF s.microscopy_type = Some("AFM") THEN "afm_agent"
        ELSE IF s.microscopy_type = Some("IETS") THEN "iets_agent"
        ELSE "end",
     state |-> s]

(***************************************************************************)
(* Microscopy agents                                                       *)
(***************************************************************************)
\* Outcomes of the IETS simulation:
\*   ok           pyPPSTM present, GPAW file present, IETS_simple returns
\*   no_gpaw      pyPPSTM present, GPAW file missing
\*   no_ppstm     import of pyPPSTM raises ImportError
\*   exception    anything else raises
IetsOutcomes == {"ok", "no_gpaw", "no_ppstm", "exception"}

run_iets_simulation(s, out) ==
    LET s0 == [s EXCEPT !.workflow_stage = "microscopy"]
        done(x) == [x EXCEPT !.file_paths["microscopy"] =
                                 Path(s.session_id, "microscopy")]
    IN  IF ~has_structure(s0)
        THEN Ret(add_error(s0, "Structure has not been generated yet"), <<>>)
        ELSE IF s0.file_paths["relaxed_xyz"] = None
        THEN Ret(add_error(s0, "No relaxed structure file for IETS simulation"), <<>>)
        ELSE CASE out = "ok" ->
                    Ret(done([s0 EXCEPT !.microscopy_results = @ \cup {"iets"}]),
                        <<"IETS_simple">>)
               [] out = "no_gpaw" ->
                    Ret(done(add_warning(
                             add_warning(s0, "GPAW calculation file not found"),
                             "IETS calculation skipped")), <<>>)
               [] out = "no_ppstm" ->
                    Ret(done(add_warning(
                             [s0 EXCEPT !.microscopy_results = @ \cup {"iets"}],
                             "IETS simulation framework configured")), <<>>)
               [] out = "exception" ->
                    Ret(add_error(s0, "IETS simulation failed"),
                        <<"fail:microscopy">>)

\* The stub workflow.py installs when the STM module cannot be imported.
run_stm_simulation_stub(s) ==
    Ret(add_error(s, "GPAW not available for STM simulation"),
        <<"fail:microscopy">>)

\* Outcomes of an STM or AFM simulation.
SimOutcomes == {"ok", "exception"}

\* run_stm_simulation / run_afm_simulation: MicroscopySimulator.run(state).
run_simulation(s, kind, out) ==
    LET s0 == [s EXCEPT !.workflow_stage = "microscopy"]
    IN  IF ~has_structure(s0)
        THEN Ret(add_error(s0, "Structure has not been generated yet"), <<>>)
        ELSE IF out = "ok"
        THEN Ret([s0 EXCEPT !.microscopy_results = @ \cup {kind},
                            !.file_paths["microscopy"] =
                                Path(s.session_id, "microscopy")],
                 <<kind>>)
        ELSE Ret(add_error(s0, "simulation failed"), <<"fail:microscopy">>)

(***************************************************************************)
(* The compiled graph: one action per node, run by run_workflow.           *)
(***************************************************************************)
Init ==
    /\ \E sid \in SessionIds, q \in Queries : state = WorkflowState(sid, q)
    /\ pc = "parse_query"
    /\ log = <<>>
    /\ target = None
    /\ raised = FALSE
    /\ requests = <<>>
    /\ scilink_dir = {}
    /\ cmp = None

\* Variant of Step: the edge out of a microscopy agent leads back to the
\* microscopy check instead of END.
Step_back_to_check(node, r, next) ==
    /\ state' = r.state
    /\ raised' = r.raised
    /\ log' = log \o <<node>> \o r.calls
    /\ pc' = IF r.raised THEN "raised"
             ELSE IF next = "end" THEN "check_microscopy" ELSE next
    /\ UNCHANGED <<target, requests, scilink_dir, cmp>>

\* A node has run: take its result and follow the edge to `next`.
Step(node, r, next) ==
    /\ state' = r.state
    /\ raised' = r.raised
    /\ log' = log \o <<node>> \o r.calls
    /\ pc' = IF r.raised THEN "raised" ELSE next
    /\ UNCHANGED <<target, requests, scilink_dir, cmp>>

ParseQueryNode ==
    /\ pc = "parse_query"
    /\ \E out \in ParseOutcomes :
          Step("parse_query", parse_query_node(state, out), "generate_structure")

StructureGenerationNode ==
    /\ pc = "generate_structure"
    /\ \E prim \in PrimaryOutcomes, fb \in FallbackOutcomes, save \in SaveOutcomes :
          /\ state.parsed_params # None =>
                 PrimaryPossible(Get(state.parsed_params), prim)
          /\ Step("generate_structure", generate_structure(state, prim, fb, save),
                  "relax_structure")

RelaxationNode ==
    /\ pc = "relax_structure"
    /\ \E out \in RelaxOutcomes, init_e \in Energies, final_e \in Energies :
          Step("relax_structure", relax_structure(state, out, init_e, final_e),
               "check_microscopy")

MicroscopyCheckNode ==
    /\ pc = "check_microscopy"
    /\ Step("check_microscopy", Ret(check_microscopy(state), <<>>), "route_microscopy")

\* The conditional edge after check_microscopy.
RouteMicroscopy ==
    /\ pc = "route_microscopy"
    /\ LET r == route_microscopy(state)
       IN  /\ state' = r.state
           /\ target' = Some(r.target)
           /\ pc' = r.target
    /\ UNCHANGED <<log, raised, requests, scilink_dir, cmp>>

StmNode ==
    /\ pc = "stm_agent"
    /\ \/ Step("stm_agent", run_stm_simulation_stub(state), "end")
       \/ \E out \in SimOutcomes :
             Step("stm_agent", run_simulation(state, "stm", out), "end")

AfmNode ==
    /\ pc = "afm_agent"
    /\ \E out \in SimOutcomes :
          Step("afm_agent", run_simulation(state, "afm", out), "end")

IetsNode ==
    /\ pc = "iets_agent"
    /\ \E out \in IetsOutcomes :
          Step("iets_agent", run_iets_simulation(state, out), "end")

Next ==
    \/ ParseQueryNode
    \/ StructureGenerationNode
    \/ RelaxationNode
    \/ MicroscopyCheckNode
    \/ RouteMicroscopy
    \/ StmNode
    \/ AfmNode
    \/ IetsNode

Spec == Init /\ [][Next]_vars

\* The graph runs every enabled node: one node is enabled at a time.
FairSpec == Spec /\ WF_vars(Next)

(***************************************************************************)
(* Reading the log of executed nodes and collaborator calls.               *)
(***************************************************************************)
InLog(e) == \E i \in 1..Len(log) : log[i] = e

Count(e) == Cardinality({i \in 1..Len(log) : log[i] = e})

MicroscopyNodes == {"stm_agent", "afm_agent", "iets_agent"}

PrimaryFailed == InLog("fail:scilink_exception") \/ InLog("fail:scilink_result")

BothProvidersFailed ==
    /\ PrimaryFailed
    /\ InLog("fail:simple_surface")

(***************************************************************************)
(* Claims                                                                  *)
(***************************************************************************)

\* C1: when both the primary and the fallback provider fail, the structure
\* is unset, errors is non-empty, the stage stays strictly below Relaxed and
\* neither the relaxation stage nor a microscopy stage is entered.
C1_ShortCircuitAfterBothFail ==
    BothProvidersFailed =>
        /\ state.atoms_object = None
        /\ has_errors(state)
        /\ StageRank(state.workflow_stage) < StageRank("relaxation")
        /\ ~InLog("relax_structure")
        /\ ~InLog("load_model")
        /\ \A n \in MicroscopyNodes : ~InLog(n)

\* C2: when the primary provider is selected, the fallback provider is
\* invoked exactly once if the primary failed and not at all if it
\* succeeded; no provider is invoked more than once in a run.
C2_FallbackExactlyOnce ==
    /\ Count("_generate_with_scilink") <= 1
    /\ Count("_generate_simple_surface") <= 1
    /\ InLog("_generate_with_scilink") =>
          Count("_generate_simple_surface") = (IF PrimaryFailed THEN 1 ELSE 0)

C2_Witness ==
    /\ PrimaryFailed
    /\ Count("_generate_simple_surface") = 1
    /\ state.atoms_object # None

\* C3: no node lowers the stage: after every step of the run the stage is
\* at least the stage before the step.
C3_StageNeverDecreases ==
    [][StageRank(state'.workflow_stage) >= StageRank(state.workflow_stage)]_vars

\* A relaxation that was skipped on request.
C3_Witness ==
    /\ InLog("relax_structure")
    /\ state.atoms_object # None
    /\ Get(state.parsed_params).relax = Some(FALSE)
    /\ state.workflow_stage = "structure_generation"

\* C4: once the stage is StructureGenerated or later the structure is set.
C4_StructureSetOnceGenerated ==
    StageRank(state.workflow_stage) >= StageRank("structure_generation") =>
        state.atoms_object # None

GraphNodes == {"parse_query", "generate_structure", "relax_structure",
               "check_microscopy"} \cup MicroscopyNodes

NodesExecuted == Cardinality({i \in 1..Len(log) : log[i] \in GraphNodes})

InSeq(q, e) == \E i \in 1..Len(q) : q[i] = e

IsPrefix(p, q) ==
    /\ Len(p) <= Len(q)
    /\ \A i \in 1..Len(p) : p[i] = q[i]

ParseRecorded ==
    InLog("fail:parse_query") => InSeq(state.errors, "Query parsing failed")

PrimaryExceptionRecorded ==
    InLog("fail:scilink_exception") =>
        \/ InSeq(state.errors, "SciLink not available")
        \/ InSeq(state.errors, "SciLink generation error")

FallbackRecorded ==
    InLog("fail:simple_surface") => InSeq(state.errors, "Failed to generate structure")

RelaxationRecorded ==
    InLog("fail:relaxation") => InSeq(state.errors, "Relaxation failed")

MicroscopyRecorded ==
    InLog("fail:microscopy") =>
        \/ InSeq(state.errors, "IETS simulation failed")
        \/ InSeq(state.errors, "simulation failed")
        \/ InSeq(state.errors, "GPAW not available for STM simulation")

C7_AppendOnly ==
    [][/\ IsPrefix(state.errors, state'.errors)
       /\ IsPrefix(state.warnings, state'.warnings)]_vars

C7_Witness ==
    /\ Len(state.errors) >= 2
    /\ Len(state.warnings) >= 2

\* C8: check_microscopy sets microscopy_requested, microscopy_type and
\* interactive_pause from the parsed request, leaving interactive_pause the
\* negation of microscopy_requested; no other step writes the three flags.
C8_CheckSetsFlags ==
    [][LET named == /\ state.parsed_params # None
                    /\ Get(state.parsed_params).microscopy_type \notin {None, Some("")}
       IN  IF pc = "check_microscopy"
           THEN /\ state'.microscopy_requested = named
                /\ state'.interactive_pause = ~named
                /\ named => state'.microscopy_type =
                                Get(state.parsed_params).microscopy_type
           ELSE /\ state'.microscopy_requested = state.microscopy_requested
                /\ state'.microscopy_type = state.microscopy_type
                /\ state'.interactive_pause = state.interactive_pause]_vars

C8_Witness ==
    /\ pc = "end"
    /\ InLog("iets_agent")
    /\ state.microscopy_requested
    /\ state.microscopy_type = Some("IETS")
    /\ ~state.interactive_pause

KnownTechniques == {Some("STM"), Some("AFM"), Some("IETS")}

\* C9: routing a requested technique that is none of STM, AFM, IETS gives
\* the terminal target and appends a warning to the warnings of the state.
C9_UnknownTechniqueWarns ==
    [][(/\ pc = "route_microscopy"
        /\ state.microscopy_requested
        /\ state.microscopy_type \notin KnownTechniques)
       => /\ target' = Some("end")
          /\ Len(state'.warnings) = Len(state.warnings) + 1]_vars

\* The target table of the router.
ExpectedTarget(requested, type) ==
    CASE ~requested -> "end"
      [] requested /\ type = Some("STM") -> "stm_agent"
      [] requested /\ type = Some("AFM") -> "afm_agent"
      [] requested /\ type = Some("IETS") -> "iets_agent"
      [] OTHER -> "end"

\* C10: routing changes no field of the state, and the target is a function
\* of microscopy_requested and microscopy_type alone.
C10_RouteIsPure ==
    [][pc = "route_microscopy" =>
         /\ state' = state
         /\ target' = Some(ExpectedTarget(state.microscopy_requested,
                                         state.microscopy_type))]_vars

C10_Witness ==
    /\ target = Some("end")
    /\ state.microscopy_requested
    /\ state.microscopy_type = Some("XYZ")
    /\ has_errors(state)

\* C11: if interactive_pause is true after the microscopy check, no
\* microscopy stage is entered before the run ends and microscopy_results
\* stays empty.
C11_PauseStopsMicroscopy ==
    (InLog("check_microscopy") /\ state.interactive_pause) =>
        /\ pc \notin MicroscopyNodes
        /\ \A n \in MicroscopyNodes : ~InLog(n)
        /\ state.microscopy_results = {}

C11_Witness ==
    /\ pc = "end"
    /\ state.interactive_pause
    /\ state.atoms_relaxed # None
    /\ target = Some("end")

RelaxSkipRequested ==
    /\ pc = "relax_structure"
    /\ state.atoms_object # None
    /\ state.parsed_params # None
    /\ Get(state.parsed_params).relax = Some(FALSE)

\* C12: with a structure and relax = false, relax_structure invokes no
\* engine, leaves relaxation_results, atoms_relaxed and the relaxed_xyz path
\* absent and the unrelaxed structure and errors unchanged, and the run goes
\* on to the microscopy check without raising.
C12_SkippedRelaxation ==
    [][RelaxSkipRequested =>
         /\ log' = Append(log, "relax_structure")
         /\ state'.relaxation_results = None
         /\ state'.atoms_relaxed = None
         /\ state'.file_paths["relaxed_xyz"] = None
         /\ state'.atoms_object = state.atoms_object
         /\ state'.errors = state.errors
         /\ ~raised'
         /\ pc' = "check_microscopy"]_vars

C12_Witness ==
    /\ pc = "end"
    /\ InLog("afm_agent")
    /\ state.atoms_object # None
    /\ Get(state.parsed_params).relax = Some(FALSE)
    /\ state.relaxation_results = None

\* C13: after a failed relaxation an error is recorded, the unrelaxed
\* structure is kept, and a requested microscopy simulation is not refused
\* for lack of a relaxed structure.
C13_MicroscopyAfterFailedRelaxation ==
    InLog("fail:relaxation") =>
        /\ InSeq(state.errors, "Relaxation failed")
        /\ state.atoms_object # None
        /\ ~InSeq(state.errors, "No relaxed structure file for IETS simulation")

NodeSeq == SelectSeq(log, LAMBDA e : e \in GraphNodes)

\* C14: the nodes of a run execute in the order parse_query,
\* generate_structure, relax_structure, check_microscopy, then at most one
\* microscopy agent; none executes twice and a finished run has executed
\* the first four.
C14_FixedOrder ==
    /\ \E m \in MicroscopyNodes :
          IsPrefix(NodeSeq, <<"parse_query", "generate_structure",
                              "relax_structure", "check_microscopy", m>>)
    /\ pc = "end" => Len(NodeSeq) >= 4
    /\ pc \in GraphNodes => ~InLog(pc)

C14_Witness ==
    /\ pc = "end"
    /\ Len(NodeSeq) = 5
    /\ NodeSeq[5] = "stm_agent"

\* C15: in a run that has a structure, the comparison has been computed
\* exactly once by the time the microscopy route is decided.
C15_ComparisonBeforeRouting ==
    (pc = "route_microscopy" /\ state.atoms_object # None) =>
        Count("full_analysis") = 1

(***************************************************************************)
(* Two requests with distinct session ids inside generate_structure.  The  *)
(* primary provider writes its structure file into the shared directory    *)
(* scilink_structures, later tests that the file exists and reads it, and  *)
(* then removes the whole directory.                                       *)
(***************************************************************************)
Reqs == {1, 2}

SessionOf(r) == IF r = 1 THEN "s1" ELSE "s2"

\* Requests for which the primary provider invokes the script generator.
ConcQueries ==
    {q \in ParsedQueries :
        /\ q.task_type = "SciLink_Structure_Generation"
        /\ q.material_formula # None
        /\ q.microscopy_type = None
        /\ q.relax = Some(TRUE)}

\* What the script generator answers: a structure file, or status "error".
ScriptOutcomes == {"ok", "status_error"}

\* The state a request enters generate_structure with.
ParsedState(r, q) ==
    parse_query_node(WorkflowState(SessionOf(r), "q1"), Some(q)).state

ConcInit ==
    /\ requests \in [Reqs -> [pc : {"scilink_generate"},
                              q : ConcQueries,
                              script : ScriptOutcomes,
                              fb : FallbackOutcomes,
                              prim : {"status_error"}]]
    /\ scilink_dir = {}
    /\ state = WorkflowState("s1", "q1")
    /\ pc = "idle"
    /\ log = <<>>
    /\ target = None
    /\ raised = FALSE
    /\ cmp = None

\* scilink_integration.py lines 92-103: generate_script leaves the structure
\* file of the request in the shared directory.
ScilinkGenerate(r) ==
    /\ requests[r].pc = "scilink_generate"
    /\ IF requests[r].script = "ok"
       THEN /\ scilink_dir' = scilink_dir \cup {r}
            /\ requests' = [requests EXCEPT ![r].pc = "scilink_load"]
       ELSE /\ scilink_dir' = scilink_dir
            /\ requests' = [requests EXCEPT ![r].pc = "finish",
                                            ![r].prim = "status_error"]
    /\ UNCHANGED <<run_vars, cmp>>

\* structure_generator.py lines 166-175: the file is looked up and read.
ScilinkLoad(r) ==
    /\ requests[r].pc = "scilink_load"
    /\ IF r \in scilink_dir
       THEN requests' = [requests EXCEPT ![r].pc = "scilink_cleanup",
                                         ![r].prim = "ok"]
       ELSE requests' = [requests EXCEPT ![r].pc = "finish",
                                         ![r].prim = "no_file"]
    /\ UNCHANGED <<scilink_dir, state, pc, log, target, raised, cmp>>

\* structure_generator.py lines 177-185: shutil.rmtree of the directory.
ScilinkCleanup(r) ==
    /\ requests[r].pc = "scilink_cleanup"
    /\ scilink_dir' = {}
    /\ requests' = [requests EXCEPT ![r].pc = "finish"]
    /\ UNCHANGED <<run_vars, cmp>>

\* The state generate_structure returns when the primary provider ended
\* the way `prim` says.
Generated(r, prim) ==
    generate_structure(ParsedState(r, requests[r].q), prim, requests[r].fb, "ok").state

\* structure_generator.py lines 78-118: fallback if needed, store, return.
GenerateFinish(r) ==
    /\ requests[r].pc = "finish"
    /\ requests' = [requests EXCEPT ![r].pc = "done"]
    /\ UNCHANGED <<scilink_dir, state, pc, log, target, raised, cmp>>

ConcNext == \E r \in Reqs :
    \/ ScilinkGenerate(r)
    \/ ScilinkLoad(r)
    \/ ScilinkCleanup(r)
    \/ GenerateFinish(r)

ConcSpec == ConcInit /\ [][ConcNext]_vars

\* The outcome of the primary provider when the request runs alone.
AlonePrim(r) == IF requests[r].script = "ok" THEN "ok" ELSE "status_error"

\* C16: interleaved requests with distinct session ids do not affect each
\* other: the state each one leaves generate_structure with is the state it
\* would reach alone with the same collaborator outcomes.
C16_RequestsIsolated ==
    \A r \in Reqs :
        requests[r].pc = "done" =>
            Generated(r, requests[r].prim) = Generated(r, AlonePrim(r))

(***************************************************************************)
(* Reference data (materials_project.py).  Percent changes are kept in     *)
(* tenths of a percent: -21 stands for -2.1 %.                             *)
(***************************************************************************)
MetalRecord(d12, d23, d34, source) ==
    [d12_change |-> d12, d23_change |-> d23, d34_change |-> d34, source |-> source]

SURFACE_REFERENCE_DATA ==
    ("Cu" :> ("100" :> MetalRecord(-21, 8, 0, "Lindgren et al., Phys. Rev. B 29, 576 (1984)") @@
              "111" :> MetalRecord(-7, 2, 0, "Davis & Noonan, Surf. Sci. 126, 245 (1983)") @@
              "110" :> MetalRecord(-85, 23, -5, "Adams et al., Surf. Sci. 187, 313 (1987)"))) @@
    ("Pt" :> ("111" :> MetalRecord(10, 5, 0, "Materer et al., Surf. Sci. 325, 207 (1995)") @@
              "100" :> MetalRecord(-11, 6, 0, "Heilmann et al., Surf. Sci. 83, 487 (1979)"))) @@
    ("Au" :> ("111" :> MetalRecord(1, 3, 0, "Harten et al., Phys. Rev. Lett. 54, 2619 (1985)") @@
              "100" :> MetalRecord(-12, 8, 0, "Gibbs et al., Phys. Rev. Lett. 67, 3117 (1991)"))) @@
    ("Ag" :> ("111" :> MetalRecord(-5, 2, 0, "Soares et al., Phys. Rev. B 60, 10768 (1999)") @@
              "100" :> MetalRecord(-18, 9, 0, "Quinn et al., J. Phys. C 21, L195 (1988)"))) @@
    ("Ni" :> ("100" :> MetalRecord(-32, 15, -3, "Demuth et al., Phys. Rev. Lett. 34, 1149 (1975)") @@
              "111" :> MetalRecord(-12, 5, 0, "Narasimhan & Vanderbilt, Phys. Rev. Lett. 69, 1564 (1992)"))) @@
    ("Pd" :> ("111" :> MetalRecord(0, 2, 0, "Ohtani et al., Phys. Rev. B 36, 4460 (1987)") @@
              "100" :> MetalRecord(-25, 12, 0, "Behm et al., J. Chem. Phys. 78, 7486 (1983)")))

REFERENCE_2D_DATA ==
    ("C" :> ("graphene" :> [c_c_bond |-> 142, lattice_constant |-> 246,
                            layer_spacing |-> 335, source |-> "Castro Neto et al., Rev. Mod. Phys. 81, 109 (2009)"])) @@
    ("MoS2" :> ("2d" :> [lattice_constant |-> 316, layer_thickness |-> 313,
                         mo_s_bond |-> 241, source |-> "Splendiani et al., Nano Lett. 10, 1271 (2010)"]))

get_surface_reference(element, face) ==
    IF face \in {"graphene", "2d"}
    THEN IF element \in DOMAIN REFERENCE_2D_DATA
         THEN IF face \in DOMAIN REFERENCE_2D_DATA[element]
              THEN Some(REFERENCE_2D_DATA[element][face])
              ELSE IF "2d" \in DOMAIN REFERENCE_2D_DATA[element]
              THEN Some(REFERENCE_2D_DATA[element]["2d"])
              ELSE None
         ELSE None
    ELSE IF element \in DOMAIN SURFACE_REFERENCE_DATA
            /\ face \in DOMAIN SURFACE_REFERENCE_DATA[element]
    THEN Some(SURFACE_REFERENCE_DATA[element][face])
    ELSE None

(***************************************************************************)
(* Comparison engine: layer extraction.  A structure is the sequence of    *)
(* the normal-axis coordinates of its atoms.                               *)
(***************************************************************************)
\* Variant of SortedCoords: the atoms are taken in input order.
SortedCoords_input_order(zs) == zs

\* The coordinates sorted from the surface (largest) inward.
SortedCoords(zs) == SortSeq(zs, LAMBDA a, b : a > b)

\* Variant of same_layer_gap: a gap equal to the threshold still merges.
same_layer_gap_inclusive(a, b, tol) == a - b <= tol

\* Two neighbours of the sorted sequence belong to one layer when their
\* coordinates differ by less than the layer-separation threshold.
same_layer_gap(a, b, tol) == a - b < tol

\* Single-linkage merge of a sorted sequence: an atom joins the layer of
\* its predecessor when their coordinates differ by less than tol,
\* otherwise it opens the next layer.  The result is the sequence of
\* layers, each the sequence of its coordinates.
RECURSIVE MergeLayers(_, _, _)
MergeLayers(sorted, i, tol) ==
    IF i = 0 THEN <<>>
    ELSE IF i = 1 THEN << <<sorted[1]>> >>
    ELSE LET prev == MergeLayers(sorted, i - 1, tol)
             n == Len(prev)
         IN  IF same_layer_gap(sorted[i - 1], sorted[i], tol)
             THEN [prev EXCEPT ![n] = Append(@, sorted[i])]
             ELSE Append(prev, <<sorted[i]>>)

extract_layers(zs, tol) == MergeLayers(SortedCoords(zs), Len(zs), tol)

\* The layer number (1 = surface) of every atom of zs.
layer_assignment(zs, tol) ==
    LET layers == extract_layers(zs, tol)
    IN  [i \in 1..Len(zs) |->
            CHOOSE k \in 1..Len(layers) : InSeq(layers[k], zs[i])]

(***************************************************************************)
(* Comparison engine: spacings, displacement, scoring.  A rational number  *)
(* is a pair <<numerator, denominator>> with a positive denominator.       *)
(***************************************************************************)
\* The layer-separation threshold, in the unit of the coordinates.
LayerTol == 2

\* Tolerance bands of the agreement verdict in tenths of a percentage
\* point: within 1.0 is excellent, within 3.0 is good.
ExcellentTol == 10

GoodTol == 30

Abs(x) == IF x < 0 THEN -x ELSE x

Min(a, b) == IF a < b THEN a ELSE b

RECURSIVE SumSeq(_)
SumSeq(q) == IF q = <<>> THEN 0 ELSE Head(q) + SumSeq(Tail(q))

\* Mean spacing between consecutive layers k and k+1, as a rational:
\* mean(layer k) - mean(layer k+1).
layer_spacings(layers) ==
    [k \in 1..(Len(layers) - 1) |->
        << SumSeq(layers[k]) * Len(layers[k + 1])
             - SumSeq(layers[k + 1]) * Len(layers[k]),
           Len(layers[k]) * Len(layers[k + 1]) >>]

\* 100 * (relaxed_spacing - bulk_spacing) / bulk_spacing, in tenths of a
\* percent, as a rational.
percent_change(bulk, relaxed) ==
    << 1000 * (relaxed[1] * bulk[2] - bulk[1] * relaxed[2]),
       relaxed[2] * bulk[1] >>

\* d_i,i+1 for the layer pairs present in both structures.
layer_changes(unrelaxed, relaxed) ==
    LET bs == layer_spacings(extract_layers(unrelaxed, LayerTol))
        rs == layer_spacings(extract_layers(relaxed, LayerTol))
    IN  [k \in 1..Min(Len(bs), Len(rs)) |-> percent_change(bs[k], rs[k])]

\* Per-atom displacement magnitudes between the two snapshots.
displacements(unrelaxed, relaxed) ==
    [i \in 1..Len(unrelaxed) |-> Abs(relaxed[i] - unrelaxed[i])]

max_displacement(unrelaxed, relaxed) ==
    LET d == displacements(unrelaxed, relaxed)
    IN  CHOOSE m \in {d[i] : i \in 1..Len(d)} : \A i \in 1..Len(d) : d[i] <= m

mean_displacement(unrelaxed, relaxed) ==
    << SumSeq(displacements(unrelaxed, relaxed)), Len(unrelaxed) >>

\* Variant of change_key: every pair is scored against the field of the
\* pair below it.
change_key_shifted(k) ==
    IF k = 1 THEN "d23_change"
    ELSE IF k = 2 THEN "d34_change"
    ELSE "none"

\* The reference field a layer pair is scored against.
change_key(k) ==
    IF k = 1 THEN "d12_change"
    ELSE IF k = 2 THEN "d23_change"
    ELSE IF k = 3 THEN "d34_change"
    ELSE "none"

\* |computed - reference| as a rational; reference in tenths of a percent.
abs_difference(computed, reference) ==
    << Abs(computed[1] - reference * computed[2]), computed[2] >>

\* The tolerance band an absolute difference falls into.
agreement_verdict(d) ==
    IF d[1] <= ExcellentTol * d[2] THEN "excellent"
    ELSE IF d[1] <= GoodTol * d[2] THEN "good"
    ELSE "poor"

VerdictRank(v) == IF v = "excellent" THEN 2 ELSE IF v = "good" THEN 1 ELSE 0

\* Variant of worst_verdict: the most optimistic verdict is taken.
worst_verdict_optimistic(verdicts) ==
    IF verdicts = {} THEN None
    ELSE Some(CHOOSE v \in verdicts :
                 \A w \in verdicts : VerdictRank(v) >= VerdictRank(w))

\* The most pessimistic of a set of verdicts; None for the empty set.
worst_verdict(verdicts) ==
    IF verdicts = {} THEN None
    ELSE Some(CHOOSE v \in verdicts :
                 \A w \in verdicts : VerdictRank(v) <= VerdictRank(w))

\* One scored or unscored layer pair of the result.
PairEntry(computed, reference) ==
    [computed |-> computed,
     reference |-> reference,
     verdict |-> IF reference = None THEN None
                 ELSE Some(agreement_verdict(abs_difference(computed, Get(reference))))]

\* Steps 4 and 5: score the computed changes against the reference record.
compare_with_reference(changes, ref) ==
    IF ref = None
    THEN [has_reference |-> FALSE,
          reference_source |-> None,
          overall_agreement |-> None,
          pairs |-> [k \in 1..Len(changes) |-> PairEntry(changes[k], None)]]
    ELSE LET rec == Get(ref)
             pairs == [k \in 1..Len(changes) |->
                          PairEntry(changes[k],
                                    IF change_key(k) \in DOMAIN rec
                                    THEN Some(rec[change_key(k)])
                                    ELSE None)]
         IN  [has_reference |-> TRUE,
              reference_source |-> Some(rec.source),
              overall_agreement |->
                  worst_verdict({Get(pairs[k].verdict) :
                                   k \in {j \in 1..Len(pairs) : pairs[j].verdict # None}}),
              pairs |-> pairs]

\* comparison.full_analysis(unrelaxed, relaxed, element, face, ...).
full_analysis(unrelaxed, relaxed, element, face) ==
    LET changes == layer_changes(unrelaxed, relaxed)
    IN  [relaxation |-> [n_atoms |-> Len(unrelaxed),
                         layer_changes_percent |-> changes,
                         max_displacement |-> max_displacement(unrelaxed, relaxed),
                         mean_displacement |-> mean_displacement(unrelaxed, relaxed)],
         comparison |-> compare_with_reference(changes, get_surface_reference(element, face)),
         warnings |-> IF Len(changes) = 0 THEN <<"fewer than 2 layers">> ELSE <<>>]

(***************************************************************************)
(* The comparison engine applied to every small structure.                 *)
(***************************************************************************)
MaxAtoms == 3

MaxZ == 4

\* Unrelaxed structures: up to MaxAtoms atoms at heights 0..MaxZ.
Structures == UNION {[1..n -> 0..MaxZ] : n \in 1..MaxAtoms}

\* The relaxation moves every atom by at most one unit along the normal.
Shifts == {-1, 0, 1}

\* (element, face) keys: stored metal surfaces, a stored 2D material, a 2D
\* material asked for under a face it is not stored under, and an element
\* with no entry.
SurfaceKeys ==
    {<<"Cu", "100">>, <<"Pd", "111">>, <<"C", "graphene">>,
     <<"MoS2", "graphene">>, <<"Zn", "100">>}

\* Layer spacing of the synthetic 4-layer slab, in units in which a
\* change of 0.1 % is one unit.
SlabSpacing == 1000

\* What the second layer of the synthetic slab moves by: nothing, 0.8 %
\* or 5 % of the layer spacing.
SlabShifts == {0, 8, 50}

\* The synthetic 4-layer slab, one atom per layer, surface first.
SlabUnrelaxed == <<3 * SlabSpacing, 2 * SlabSpacing, SlabSpacing, 0>>

\* The slab relaxed: the spacing of layers 1 and 2 contracted by 2.1 %,
\* the second layer moved outward by s.
SlabRelaxed(s) ==
    <<2 * SlabSpacing + s + (SlabSpacing - 21), 2 * SlabSpacing + s, SlabSpacing, 0>>

CmpInit ==
    /\ \/ \E u \in Structures, key \in SurfaceKeys :
            \E d \in [1..Len(u) -> Shifts] :
               cmp = [pc |-> "input",
                      unrelaxed |-> u,
                      relaxed |-> [i \in 1..Len(u) |-> u[i] + d[i]],
                      element |-> key[1],
                      face |-> key[2],
                      analysis |-> None,
                      report |-> None]
       \/ \E s \in SlabShifts, key \in SurfaceKeys :
               cmp = [pc |-> "input",
                      unrelaxed |-> SlabUnrelaxed,
                      relaxed |-> SlabRelaxed(s),
                      element |-> key[1],
                      face |-> key[2],
                      analysis |-> None,
                      report |-> None]
    /\ state = WorkflowState("s1", "q1")
    /\ pc = "idle"
    /\ log = <<>>
    /\ target = None
    /\ raised = FALSE
    /\ requests = <<>>
    /\ scilink_dir = {}

\* interactive.py lines 300-307 / agent_example.py lines 168-175.
FullAnalysis ==
    /\ cmp # None
    /\ cmp.pc = "input"
    /\ cmp' = [cmp EXCEPT !.pc = "done",
                          !.analysis = Some(full_analysis(cmp.unrelaxed, cmp.relaxed,
                                                          cmp.element, cmp.face))]
    /\ UNCHANGED <<run_vars, conc_vars>>

\* str.upper() on the three labels.
upper(label) ==
    IF label = "excellent" THEN "EXCELLENT"
    ELSE IF label = "good" THEN "GOOD"
    ELSE "POOR"

\* interactive.py lines 309-318 / agent_example.py lines 177-182: the
\* caller prints the agreement when has_reference is true; .upper() on a
\* missing overall_agreement raises AttributeError.
ReportAgreement ==
    /\ cmp # None
    /\ cmp.pc = "done"
    /\ LET c == Get(cmp.analysis).comparison
       IN  IF c.has_reference
           THEN IF c.overall_agreement = None
                THEN cmp' = [cmp EXCEPT !.pc = "raised"]
                ELSE cmp' = [cmp EXCEPT !.pc = "reported",
                                        !.report = Some(upper(Get(c.overall_agreement)))]
           ELSE cmp' = [cmp EXCEPT !.pc = "reported"]
    /\ UNCHANGED <<run_vars, conc_vars>>

CmpNext == FullAnalysis \/ ReportAgreement

CmpSpec == CmpInit /\ [][CmpNext]_vars

\* The engine has returned.
CmpDone == cmp # None /\ cmp.pc = "done"

AtomOrders(n) ==
    {p \in [1..n -> 1..n] : \A i, j \in 1..n : p[i] = p[j] => i = j}

\* The atom list zs reordered by p.
Permuted(zs, p) == [i \in 1..Len(zs) |-> zs[p[i]]]

\* C17: the comparison does not depend on the order of the atoms: under
\* every permutation applied to both atom lists each atom keeps its layer
\* number in both structures, the interlayer spacings and their changes
\* are the same, and the engine returns the analysis it returned before.
C17_OrderIndependent ==
    CmpDone =>
      \A p \in AtomOrders(Len(cmp.unrelaxed)) :
         LET u == Permuted(cmp.unrelaxed, p)
             r == Permuted(cmp.relaxed, p)
         IN  /\ \A i \in 1..Len(u) :
                   /\ layer_assignment(u, LayerTol)[i]
                        = layer_assignment(cmp.unrelaxed, LayerTol)[p[i]]
                   /\ layer_assignment(r, LayerTol)[i]
                        = layer_assignment(cmp.relaxed, LayerTol)[p[i]]
             /\ layer_spacings(extract_layers(u, LayerTol))
                  = layer_spacings(extract_layers(cmp.unrelaxed, LayerTol))
             /\ layer_spacings(extract_layers(r, LayerTol))
                  = layer_spacings(extract_layers(cmp.relaxed, LayerTol))
             /\ full_analysis(u, r, cmp.element, cmp.face) = Get(cmp.analysis)

\* The engine has analysed three atoms given in an order that is not the
\* sorted one, in at least two layers.
C17_Witness ==
    /\ CmpDone
    /\ Len(cmp.unrelaxed) = 3
    /\ cmp.unrelaxed[1] < cmp.unrelaxed[2]
    /\ Len(Get(cmp.analysis).relaxation.layer_changes_percent) >= 1

\* The set of coordinates of a structure.
Coords(zs) == {zs[i] : i \in 1..Len(zs)}

\* Between the heights lo <= hi lies a gap of at least the threshold: two
\* coordinates of zs with no atom between them that differ by LayerTol or
\* more.
Separated(zs, hi, lo) ==
    \E a, b \in Coords(zs) :
       /\ lo <= b /\ b < a /\ a <= hi
       /\ a - b >= LayerTol
       /\ ~ \E c \in Coords(zs) : b < c /\ c < a

\* Layer numbers run 1..L from the surface (largest coordinate) inward.
NumberedFromSurface(zs) ==
    LET la == layer_assignment(zs, LayerTol)
        used == {la[i] : i \in 1..Len(zs)}
    IN  /\ used = 1..Cardinality(used)
        /\ \A i, j \in 1..Len(zs) : zs[i] > zs[j] => la[i] <= la[j]

\* C18 as stated: two atoms are in the same layer if and only if their
\* normal-axis coordinates differ by less than the threshold, and layers
\* are numbered from 1 at the surface inward.
C18_SameLayerIffClose ==
    CmpDone =>
      \A zs \in {cmp.unrelaxed, cmp.relaxed} :
         /\ \A i, j \in 1..Len(zs) :
               layer_assignment(zs, LayerTol)[i] = layer_assignment(zs, LayerTol)[j]
                 <=> Abs(zs[i] - zs[j]) < LayerTol
         /\ NumberedFromSurface(zs)

\* C18 amended: two atoms are in the same layer if and only if no gap of
\* at least the threshold separates consecutive sorted coordinates between
\* them; atoms closer than the threshold always share a layer; layers are
\* numbered from 1 at the surface inward.
C18_SameLayerIffChained ==
    CmpDone =>
      \A zs \in {cmp.unrelaxed, cmp.relaxed} :
         /\ \A i, j \in 1..Len(zs) :
               /\ layer_assignment(zs, LayerTol)[i] = layer_assignment(zs, LayerTol)[j]
                    <=> ~ Separated(zs, IF zs[i] > zs[j] THEN zs[i] ELSE zs[j],
                                        IF zs[i] > zs[j] THEN zs[j] ELSE zs[i])
               /\ Abs(zs[i] - zs[j]) < LayerTol
                    => layer_assignment(zs, LayerTol)[i] = layer_assignment(zs, LayerTol)[j]
         /\ NumberedFromSurface(zs)

\* A chain: two atoms of one layer whose coordinates differ by at least
\* the threshold, linked by an atom between them.
C18_Witness ==
    /\ CmpDone
    /\ \E i, j \in 1..Len(cmp.relaxed) :
          /\ layer_assignment(cmp.relaxed, LayerTol)[i]
               = layer_assignment(cmp.relaxed, LayerTol)[j]
          /\ Abs(cmp.relaxed[i] - cmp.relaxed[j]) >= LayerTol

\* A record is stored under exactly the key (element, face).
HasEntry(element, face) ==
    IF face \in {"graphene", "2d"}
    THEN element \in DOMAIN REFERENCE_2D_DATA
         /\ face \in DOMAIN REFERENCE_2D_DATA[element]
    ELSE element \in DOMAIN SURFACE_REFERENCE_DATA
         /\ face \in DOMAIN SURFACE_REFERENCE_DATA[element]

\* C19: for an (element, face) with no reference entry the result has
\* has_reference = FALSE, no overall_agreement, no reference_source, no
\* per-pair reference value and no verdict, while the computed spacing
\* changes and the displacement metrics are reported.
C19_NoReferenceNoScoring ==
    (CmpDone /\ ~ HasEntry(cmp.element, cmp.face)) =>
      LET a == Get(cmp.analysis)
          changes == layer_changes(cmp.unrelaxed, cmp.relaxed)
      IN  /\ a.comparison.has_reference = FALSE
          /\ a.comparison.overall_agreement = None
          /\ a.comparison.reference_source = None
          /\ Len(a.comparison.pairs) = Len(changes)
          /\ \A k \in 1..Len(changes) :
                /\ a.comparison.pairs[k].reference = None
                /\ a.comparison.pairs[k].verdict = None
                /\ a.comparison.pairs[k].computed = changes[k]
          /\ a.relaxation.layer_changes_percent = changes
          /\ a.relaxation.max_displacement = max_displacement(cmp.unrelaxed, cmp.relaxed)
          /\ a.relaxation.mean_displacement = mean_displacement(cmp.unrelaxed, cmp.relaxed)

\* The layer pairs of the result that were scored against a reference.
ScoredPairs ==
    {k \in 1..Len(Get(cmp.analysis).comparison.pairs) :
        Get(cmp.analysis).comparison.pairs[k].verdict # None}

PairVerdict(k) == Get(Get(cmp.analysis).comparison.pairs[k].verdict)

\* |computed - reference| of a scored pair, as a rational.
PairDifference(k) ==
    abs_difference(Get(cmp.analysis).comparison.pairs[k].computed,
                   Get(Get(cmp.analysis).comparison.pairs[k].reference))

\* C20: with a reference and at least one scored pair, overall_agreement
\* is the worst per-pair verdict (excellent > good > poor): it is poor
\* iff some pair is poor and excellent iff every pair is excellent; the
\* verdict of a pair is a function of |computed - reference| alone, and a
\* larger absolute difference never gets a better verdict.
C20_OverallIsWorstVerdict ==
    (CmpDone /\ Get(cmp.analysis).comparison.has_reference /\ ScoredPairs # {}) =>
      LET overall == Get(cmp.analysis).comparison.overall_agreement
      IN  /\ overall # None
          /\ \E k \in ScoredPairs : PairVerdict(k) = Get(overall)
          /\ \A k \in ScoredPairs : VerdictRank(Get(overall)) <= VerdictRank(PairVerdict(k))
          /\ Get(overall) = "poor" <=> \E k \in ScoredPairs : PairVerdict(k) = "poor"
          /\ Get(overall) = "excellent" <=> \A k \in ScoredPairs : PairVerdict(k) = "excellent"
          /\ \A k \in ScoredPairs : PairVerdict(k) = agreement_verdict(PairDifference(k))
          /\ \A j, k \in ScoredPairs :
                PairDifference(j)[1] * PairDifference(k)[2]
                    <= PairDifference(k)[1] * PairDifference(j)[2]
                  => VerdictRank(PairVerdict(j)) >= VerdictRank(PairVerdict(k))
          /\ \A d1, d2 \in 0..(GoodTol + 1) :
                d1 <= d2 => VerdictRank(agreement_verdict(<<d1, 1>>))
                              >= VerdictRank(agreement_verdict(<<d2, 1>>))

\* Two layer pairs were scored and got different verdicts.
C20_Witness ==
    /\ CmpDone
    /\ Get(cmp.analysis).comparison.has_reference
    /\ \E j, k \in ScoredPairs : PairVerdict(j) # PairVerdict(k)

\* The analysed structure has four layers in both snapshots and its
\* spacing of layers 1 and 2 changed by exactly -2.1 %.
ContractedSlab ==
    /\ CmpDone
    /\ Len(extract_layers(cmp.unrelaxed, LayerTol)) = 4
    /\ Len(extract_layers(cmp.relaxed, LayerTol)) = 4
    /\ LET d12 == layer_changes(cmp.unrelaxed, cmp.relaxed)[1]
       IN  d12[1] = -21 * d12[2]

\* Pairs (1,2), (2,3), (3,4) are scored against -2.1, 0.8 and 0.0.
ScoredAgainstCu100 ==
    LET pairs == Get(cmp.analysis).comparison.pairs
    IN  /\ Len(pairs) = 3
        /\ pairs[1].reference = Some(-21)
        /\ pairs[2].reference = Some(8)
        /\ pairs[3].reference = Some(0)

\* C21 as stated: for Cu(100) and a 4-layer slab whose spacing of layers
\* 1 and 2 contracts by 2.1 %, has_reference is TRUE, overall_agreement is
\* "excellent", and pairs (2,3), (3,4) are scored against 0.8 and 0.0.
C21_CuScenarioExcellent ==
    (ContractedSlab /\ cmp.element = "Cu" /\ cmp.face = "100") =>
      /\ Get(cmp.analysis).comparison.has_reference
      /\ Get(cmp.analysis).comparison.overall_agreement = Some("excellent")
      /\ ScoredAgainstCu100

\* C21 amended: for that slab has_reference is TRUE, pair (1,2) is scored
\* "excellent" against -2.1, pairs (2,3), (3,4) are scored against 0.8 and
\* 0.0, and overall_agreement is "excellent" exactly when those two pairs
\* are excellent as well, as they are when layers 2 to 4 do not move.
C21_CuScenarioWorstPair ==
    (ContractedSlab /\ cmp.element = "Cu" /\ cmp.face = "100") =>
      /\ Get(cmp.analysis).comparison.has_reference
      /\ ScoredAgainstCu100
      /\ PairVerdict(1) = "excellent"
      /\ Get(cmp.analysis).comparison.overall_agreement = Some("excellent")
           <=> (PairVerdict(2) = "excellent" /\ PairVerdict(3) = "excellent")
      /\ (\A i \in 2..4 : cmp.relaxed[i] = cmp.unrelaxed[i])
           => Get(cmp.analysis).comparison.overall_agreement = Some("excellent")

\* The Cu(100) slab with only the surface layer moved has been analysed.
C21_Witness ==
    /\ ContractedSlab
    /\ cmp.element = "Cu" /\ cmp.face = "100"
    /\ \A i \in 2..4 : cmp.relaxed[i] = cmp.unrelaxed[i]
    /\ Get(cmp.analysis).comparison.overall_agreement = Some("excellent")

\* The engine has returned its analysis (the caller may have gone on).
CmpAnalysed == cmp # None /\ cmp.analysis # None

\* Layer clustering found fewer than two layers in one of the snapshots.
TooThin ==
    \/ Len(extract_layers(cmp.unrelaxed, LayerTol)) < 2
    \/ Len(extract_layers(cmp.relaxed, LayerTol)) < 2

\* C22: with fewer than 2 layers every spacing-derived field of the result
\* is absent, a warning is delivered, no exception is raised, and
\* has_reference tells whether a reference entry exists.
C22_ThinSlabDegrades ==
    (CmpAnalysed /\ TooThin) =>
      LET a == Get(cmp.analysis)
      IN  /\ a.relaxation.layer_changes_percent = <<>>
          /\ a.comparison.pairs = <<>>
          /\ a.warnings # <<>>
          /\ cmp.pc # "raised"
          /\ a.comparison.has_reference <=> HasEntry(cmp.element, cmp.face)

\* Elements and faces the lookup is asked about: every stored one, an
\* element with no entry and a face nothing is stored under.
ReferenceElements ==
    DOMAIN SURFACE_REFERENCE_DATA \cup DOMAIN REFERENCE_2D_DATA \cup {"Zn"}

ReferenceFaces == {"100", "110", "111", "211", "graphene", "2d"}

\* The record stored under exactly (element, face), if any.
StoredUnder(element, face) ==
    IF ~ HasEntry(element, face) THEN None
    ELSE IF face \in {"graphene", "2d"}
    THEN Some(REFERENCE_2D_DATA[element][face])
    ELSE Some(SURFACE_REFERENCE_DATA[element][face])

\* C23: get_surface_reference(element, face) returns the record stored
\* under exactly that key and None when nothing is stored under it, for
\* every element and face, the key of the analysed structure included.
C23_LookupExactKey ==
    /\ \A e \in ReferenceElements, f \in ReferenceFaces :
          get_surface_reference(e, f) = StoredUnder(e, f)
    /\ CmpAnalysed =>
          /\ get_surface_reference(cmp.element, cmp.face)
               = StoredUnder(cmp.element, cmp.face)
          /\ Get(cmp.analysis).comparison.has_reference
               <=> StoredUnder(cmp.element, cmp.face) # None

\* C24: no step of a run changes session_id or query, and structure_uuid,
\* once set, is the session id.
C24_IdentityKept ==
    [][/\ state'.session_id = state.session_id
       /\ state'.query = state.query
       /\ state'.structure_uuid # None
            => state'.structure_uuid = Some(state'.session_id)]_vars

\* A run that stored a structure and went through a microscopy agent has
\* ended with the session id and query it started with.
C24_Witness ==
    /\ pc = "end"
    /\ state.structure_uuid = Some(state.session_id)
    /\ state.session_id \in SessionIds
    /\ state.query \in Queries
    /\ \E n \in MicroscopyNodes : InLog(n)

\* C25: after a failed query parsing parsed_params stays unset and the
\* stage is never "parsed", the failure is the first entry of errors, no
\* structure provider and no relaxation engine is invoked, structure stays
\* unset, check_microscopy sets microscopy_requested = FALSE and
\* interactive_pause = TRUE, and no microscopy stage runs.
C25_ParseFailureDegrades ==
    InLog("fail:parse_query") =>
      /\ state.parsed_params = None
      /\ state.workflow_stage # "parsed"
      /\ state.errors # <<>>
      /\ state.errors[1] = "Query parsing failed"
      /\ ~ InLog("_generate_with_scilink")
      /\ ~ InLog("_generate_simple_surface")
      /\ state.atoms_object = None
      /\ state.structure_uuid = None
      /\ ~ InLog("load_model")
      /\ ~ InLog("relax_surfaces")
      /\ state.atoms_relaxed = None
      /\ InLog("check_microscopy") =>
            /\ state.microscopy_requested = FALSE
            /\ state.interactive_pause = TRUE
      /\ \A n \in MicroscopyNodes : ~ InLog(n) /\ pc # n
      /\ state.microscopy_results = {}

\* A run whose query parsing failed has gone through every node to END.
C25_Witness ==
    /\ pc = "end"
    /\ InLog("fail:parse_query")
    /\ InLog("generate_structure")
    /\ InLog("relax_structure")
    /\ InLog("check_microscopy")

\* The microscopy node of a technique.
AgentOf(type) ==
    IF type = Some("STM") THEN "stm_agent"
    ELSE IF type = Some("AFM") THEN "afm_agent"
    ELSE IF type = Some("IETS") THEN "iets_agent"
    ELSE "none"

\* C26: at most one microscopy stage executes in a run, only when
\* microscopy_requested is true and microscopy_type is STM, AFM or IETS,
\* and a run that ends with microscopy_requested true has executed the
\* stage of the recorded technique.
C26_RequestedTechniqueRuns ==
    /\ Count("stm_agent") + Count("afm_agent") + Count("iets_agent") <= 1
    /\ \A n \in MicroscopyNodes :
          InLog(n) => /\ state.microscopy_requested
                      /\ state.microscopy_type \in KnownTechniques
                      /\ n = AgentOf(state.microscopy_type)
    /\ (pc = "end" /\ state.microscopy_requested)
          => InLog(AgentOf(state.microscopy_type))

\* C27: relax_structure is all-or-nothing: after a relaxation error
\* atoms_relaxed, relaxation_results and the relaxed_xyz and visualization
\* paths are unset; after a relaxation that ran without error all four are
\* set and energy_change = final_energy - initial_energy.
C27_RelaxAllOrNothing ==
    /\ InLog("fail:relaxation") =>
          /\ state.atoms_relaxed = None
          /\ state.relaxation_results = None
          /\ state.file_paths["relaxed_xyz"] = None
          /\ state.file_paths["visualization"] = None
    /\ (InLog("relax_surfaces") /\ ~ InLog("fail:relaxation")) =>
          /\ state.atoms_relaxed # None
          /\ state.relaxation_results # None
          /\ state.file_paths["relaxed_xyz"] # None
          /\ state.file_paths["visualization"] # None
          /\ Get(state.relaxation_results).energy_change
               = Get(state.relaxation_results).final_energy
                   - Get(state.relaxation_results).initial_energy

\* C28: generate_structure appends to errors only when it leaves the
\* structure unset: a step that stores a structure, from the primary or
\* from the fallback provider, leaves errors as it found them.
C28_NoErrorWithStructure ==
    [][(pc = "generate_structure" /\ state'.atoms_object # None)
          => state'.errors = state.errors]_vars

\* The primary provider was called for a request of another task type
\* than SciLink_Structure_Generation.
PrimaryForOtherTask ==
    /\ InLog("_generate_with_scilink")
    /\ state.parsed_params # None
    /\ Get(state.parsed_params).task_type # "SciLink_Structure_Generation"

\* C29: called for another task type, the primary provider fails without
\* invoking the script generator and the structure of the run, if any, is
\* the fallback provider's; a structure of the primary provider exists
\* only for task type SciLink_Structure_Generation.
C29_PrimaryOnlyForSciLinkTask ==
    /\ PrimaryForOtherTask =>
          /\ PrimaryFailed
          /\ ~ InLog("generate_script")
          /\ state.atoms_object # None
                => Get(state.atoms_object).provider = "simple"
    /\ (state.atoms_object # None /\ Get(state.atoms_object).provider = "scilink")
          => Get(state.parsed_params).task_type = "SciLink_Structure_Generation"

\* use_scilink selected the primary provider for another task type, and
\* the run got its structure from the fallback provider.
C29_Witness ==
    /\ PrimaryForOtherTask
    /\ Get(state.parsed_params).use_scilink
    /\ InLog("fail:scilink_result")
    /\ state.atoms_object # None
    /\ Get(state.atoms_object).provider = "simple"

\* C30: whenever has_reference is TRUE, overall_agreement is one of
\* "excellent", "good", "poor", so the caller's .upper() never fails.
C30_AgreementPresentWithReference ==
    (CmpAnalysed /\ Get(cmp.analysis).comparison.has_reference) =>
      /\ Get(cmp.analysis).comparison.overall_agreement
           \in {Some("excellent"), Some("good"), Some("poor")}
      /\ cmp.pc # "raised"

====
